---- MODULE Spec2Model ----
\* A model of kambo-graph's SimpleGraph (src/src/graphs/simple.rs) together with
\* the default methods of the Graph trait (src/src/traits/graph.rs).
\*
\* A graph value is a record [vertices, edges, directed]:
\*   vertices : a function  vertex -> set of neighbours   (HashMap<V, HashSet<V>>)
\*   edges    : a function  <<u, v>> -> weight            (HashMap<(V, V), W>)
\*              Graph and GraphMut are implemented for SimpleGraph<V, ()> only,
\*              and the weighted impls require them: the weight type of every
\*              graph the methods exist for is the unit type ().
\*   directed : BOOLEAN
\* Every method is an operator from a graph value (and arguments) to either a
\* query result or a record [g |-> graph afterwards, res |-> returned value].
EXTENDS Integers, FiniteSets, Sequences, TLC

\* ---------------------------------------------------------------- bounds
MaxVertex == 3
MaxOps == 5

Vertex == 1..MaxVertex
\* The values of W = (): the one value ().
Weight == {"()"}

VARIABLES vertices, edges, directed, last, pre, steps

vars == <<vertices, edges, directed, last, pre, steps>>

\* The graph held by the program now.
G == [vertices |-> vertices, edges |-> edges, directed |-> directed]

\* ---------------------------------------------------------------- helpers
\* HashMap::insert / HashMap::remove / HashMap::retain on a TLA+ function.
MapInsert(m, k, x) == [y \in (DOMAIN m) \cup {k} |-> IF y = k THEN x ELSE m[y]]

MapRemove(m, k) == [y \in (DOMAIN m) \ {k} |-> m[y]]

MapRetain(m, keep) == [y \in keep |-> m[y]]

EmptyMap == [y \in {} |-> 0]

RECURSIVE SumOver(_, _)
SumOver(f, S) ==
    IF S = {} THEN 0
    ELSE LET x == CHOOSE y \in S : TRUE IN f[x] + SumOver(f, S \ {x})

\* All enumerations (without repetition) of a finite set, as sequences: the
\* orders in which a HashMap iteration can visit the elements.
Orders(S) ==
    {s \in [1..Cardinality(S) -> S] : \A i, j \in 1..Cardinality(S) : i # j => s[i] # s[j]}

\* ---------------------------------------------------------------- construction
new(d) == [vertices |-> EmptyMap, edges |-> EmptyMap, directed |-> d]

\* ---------------------------------------------------------------- Graph
contains_vertex(g, v) == v \in DOMAIN g.vertices

contains_edge(g, u, v) == <<u, v>> \in DOMAIN g.edges

is_directed(g) == g.directed

\* neighbors(v): Some(set) for a vertex, None otherwise.
neighbors(g, v) ==
    IF v \in DOMAIN g.vertices THEN [some |-> TRUE, set |-> g.vertices[v]]
    ELSE [some |-> FALSE, set |-> {}]

NeighborCount(g, v) == IF neighbors(g, v).some THEN Cardinality(neighbors(g, v).set) ELSE 0

order(g) == Cardinality(DOMAIN g.vertices)

edge_count(g) ==
    LET total == SumOver([v \in DOMAIN g.vertices |-> NeighborCount(g, v)], DOMAIN g.vertices)
    IN IF is_directed(g) THEN total ELSE total \div 2

IsIsolated(g, v) ==
    IF neighbors(g, v).some THEN Cardinality(neighbors(g, v).set) = 0 ELSE TRUE

get_isolated_vertices(g) == {v \in DOMAIN g.vertices : IsIsolated(g, v)}

has_isolated_vertex(g) == \E v \in DOMAIN g.vertices : IsIsolated(g, v)

\* degree(v): Some(n) for a vertex, None otherwise.
degree(g, v) ==
    IF ~contains_vertex(g, v) THEN [some |-> FALSE, n |-> 0]
    ELSE [some |-> neighbors(g, v).some, n |-> NeighborCount(g, v)]

\* ---------------------------------------------------------------- WeightedGraph
\* edge_weight(u, v): Some(w) when a weight is stored for the ordered pair.
edge_weight(g, u, v) ==
    IF <<u, v>> \in DOMAIN g.edges THEN [some |-> TRUE, w |-> g.edges[<<u, v>>]]
    ELSE [some |-> FALSE, w |-> 0]

\* ---------------------------------------------------------------- GraphMut
add_vertex(g, vertex) ==
    IF contains_vertex(g, vertex)
    THEN [g |-> g, res |-> "EdgeAlreadyExists"]
    ELSE [g |-> [g EXCEPT !.vertices = MapInsert(g.vertices, vertex, {})], res |-> "Ok"]

\* remove_vertex clearing the weight map instead of filtering it.
remove_vertex_DropAllWeights(g, vertex) ==
    IF ~contains_vertex(g, vertex)
    THEN [g |-> g, res |-> "VertexNotFound"]
    ELSE LET removed == MapRemove(g.vertices, vertex)
         IN [g |-> [g EXCEPT !.vertices = [x \in DOMAIN removed |-> removed[x] \ {vertex}],
                             !.edges = EmptyMap],
             res |-> "Ok"]

\* remove_vertex without the retain on the weight map.
remove_vertex_KeepWeights(g, vertex) ==
    IF ~contains_vertex(g, vertex)
    THEN [g |-> g, res |-> "VertexNotFound"]
    ELSE LET removed == MapRemove(g.vertices, vertex)
         IN [g |-> [g EXCEPT !.vertices = [x \in DOMAIN removed |-> removed[x] \ {vertex}]],
             res |-> "Ok"]

\* remove_vertex with the retain keeping the weights of edges into the vertex
\* (the test `v != vertex` forgotten).
remove_vertex_KeepIncoming(g, vertex) ==
    IF ~contains_vertex(g, vertex)
    THEN [g |-> g, res |-> "VertexNotFound"]
    ELSE LET removed == MapRemove(g.vertices, vertex)
             kept == {p \in DOMAIN g.edges : p[1] # vertex}
         IN [g |-> [g EXCEPT !.vertices = [x \in DOMAIN removed |-> removed[x] \ {vertex}],
                             !.edges = MapRetain(g.edges, kept)],
             res |-> "Ok"]

remove_vertex(g, vertex) ==
    IF ~contains_vertex(g, vertex)
    THEN [g |-> g, res |-> "VertexNotFound"]
    ELSE LET removed == MapRemove(g.vertices, vertex)
             kept == {p \in DOMAIN g.edges : p[1] # vertex /\ p[2] # vertex}
         IN [g |-> [g EXCEPT !.vertices = [x \in DOMAIN removed |-> removed[x] \ {vertex}],
                             !.edges = MapRetain(g.edges, kept)],
             res |-> "Ok"]

\* get_mut(k).unwrap().insert(x) / .remove(x): panics when k is no key.
CanUnwrap(g, k) == k \in DOMAIN g.vertices

NeighborInsert(g, k, x) == [g EXCEPT !.vertices[k] = @ \cup {x}]

NeighborRemove(g, k, x) == [g EXCEPT !.vertices[k] = @ \ {x}]

\* add_edge testing the presence of the source only; the target's neighbor set
\* is then unwrapped without a check.
add_edge_CheckSourceOnly(g, u, v) ==
    IF ~contains_vertex(g, u)
    THEN [g |-> g, res |-> "VertexNotFound"]
    ELSE IF contains_edge(g, u, v)
    THEN [g |-> g, res |-> "EdgeAlreadyExists"]
    ELSE LET g1 == NeighborInsert(g, u, v)
         IN IF g.directed THEN [g |-> g1, res |-> "Ok"]
            ELSE IF ~CanUnwrap(g1, v) THEN [g |-> g1, res |-> "Panic"]
            ELSE [g |-> NeighborInsert(g1, v, u), res |-> "Ok"]

\* add_edge without the mirrored insertion of an undirected graph.
add_edge_NoMirror(g, u, v) ==
    IF ~contains_vertex(g, u) \/ ~contains_vertex(g, v)
    THEN [g |-> g, res |-> "VertexNotFound"]
    ELSE IF contains_edge(g, u, v)
    THEN [g |-> g, res |-> "EdgeAlreadyExists"]
    ELSE IF ~CanUnwrap(g, u)
    THEN [g |-> g, res |-> "Panic"]
    ELSE [g |-> NeighborInsert(g, u, v), res |-> "Ok"]

add_edge(g, u, v) ==
    IF ~contains_vertex(g, u) \/ ~contains_vertex(g, v)
    THEN [g |-> g, res |-> "VertexNotFound"]
    ELSE IF contains_edge(g, u, v)
    THEN [g |-> g, res |-> "EdgeAlreadyExists"]
    ELSE IF ~CanUnwrap(g, u)
    THEN [g |-> g, res |-> "Panic"]
    ELSE LET g1 == NeighborInsert(g, u, v)
         IN IF g.directed THEN [g |-> g1, res |-> "Ok"]
            ELSE IF ~CanUnwrap(g1, v) THEN [g |-> g1, res |-> "Panic"]
            ELSE [g |-> NeighborInsert(g1, v, u), res |-> "Ok"]

remove_edge(g, u, v) ==
    IF ~contains_edge(g, u, v)
    THEN [g |-> g, res |-> "EdgeNotFound"]
    ELSE LET g1 == [g EXCEPT !.edges = MapRemove(g.edges, <<u, v>>)]
         IN IF ~CanUnwrap(g1, u) THEN [g |-> g1, res |-> "Panic"]
            ELSE LET g2 == NeighborRemove(g1, u, v)
                 IN IF g.directed THEN [g |-> g2, res |-> "Ok"]
                    ELSE IF ~CanUnwrap(g2, v) THEN [g |-> g2, res |-> "Panic"]
                    ELSE [g |-> NeighborRemove(g2, v, u), res |-> "Ok"]

\* The loop `for vertex in &isolated_vertices { self.remove_vertex(vertex)?; }`
\* over the collected vector, from position i on.
RECURSIVE RemoveEach(_, _, _)
RemoveEach(g, isolated, i) ==
    IF i > Len(isolated) THEN [g |-> g, res |-> "Ok"]
    ELSE LET r == remove_vertex(g, isolated[i])
         IN IF r.res # "Ok" THEN r ELSE RemoveEach(r.g, isolated, i + 1)

\* The isolated vertices as collected from the HashMap iteration.
IsolatedOnEntry(g) == {v \in DOMAIN g.vertices : g.vertices[v] = {}}

\* remove_isolated_vertices leaving the loop after the first removal.
remove_isolated_vertices_FirstOnly(g, isolated) ==
    IF Len(isolated) = 0
    THEN [g |-> g, res |-> "VertexNotFound"]
    ELSE remove_vertex(g, isolated[1])

\* `isolated` is the collected Vec: an enumeration of IsolatedOnEntry(g) in the
\* map's iteration order.
remove_isolated_vertices(g, isolated) ==
    IF Len(isolated) = 0
    THEN [g |-> g, res |-> "VertexNotFound"]
    ELSE RemoveEach(g, isolated, 1)

\* ---------------------------------------------------------------- WeightedGraphMut
\* set_edge_weight testing the presence of the source only.
set_edge_weight_CheckSourceOnly(g, u, v, weight) ==
    IF ~contains_vertex(g, u)
    THEN [g |-> g, res |-> "VertexNotFound"]
    ELSE LET g1 == NeighborInsert(g, u, v)
         IN IF g.directed
            THEN [g |-> [g1 EXCEPT !.edges = MapInsert(g1.edges, <<u, v>>, weight)],
                  res |-> "Ok"]
            ELSE IF ~CanUnwrap(g1, v) THEN [g |-> g1, res |-> "Panic"]
            ELSE LET g2 == NeighborInsert(g1, v, u)
                     g3 == [g2 EXCEPT !.edges = MapInsert(g2.edges, <<u, v>>, weight)]
                 IN [g |-> [g3 EXCEPT !.edges = MapInsert(g3.edges, <<v, u>>, weight)],
                     res |-> "Ok"]

\* set_edge_weight without the mirrored weight entry of an undirected graph.
set_edge_weight_NoMirrorWeight(g, u, v, weight) ==
    IF ~contains_vertex(g, u) \/ ~contains_vertex(g, v)
    THEN [g |-> g, res |-> "VertexNotFound"]
    ELSE LET g1 == NeighborInsert(g, u, v)
             g2 == IF g.directed THEN g1 ELSE NeighborInsert(g1, v, u)
         IN [g |-> [g2 EXCEPT !.edges = MapInsert(g2.edges, <<u, v>>, weight)], res |-> "Ok"]

set_edge_weight(g, u, v, weight) ==
    IF ~contains_vertex(g, u) \/ ~contains_vertex(g, v)
    THEN [g |-> g, res |-> "VertexNotFound"]
    ELSE IF ~CanUnwrap(g, u)
    THEN [g |-> g, res |-> "Panic"]
    ELSE LET g1 == NeighborInsert(g, u, v)
             g2 == IF g.directed THEN g1 ELSE NeighborInsert(g1, v, u)
             g3 == [g2 EXCEPT !.edges = MapInsert(g2.edges, <<u, v>>, weight)]
             g4 == IF g.directed THEN g3
                   ELSE [g3 EXCEPT !.edges = MapInsert(g3.edges, <<v, u>>, weight)]
         IN [g |-> g4, res |-> "Ok"]

\* ---------------------------------------------------------------- the state machine
\* `last` records the call made last and what it returned, `pre` the graph it
\* was made on; `steps` counts the calls made.
Call(op, u, v, w, r) ==
    /\ steps < MaxOps
    /\ vertices' = r.g.vertices
    /\ edges' = r.g.edges
    /\ directed' = r.g.directed
    /\ last' = [op |-> op, u |-> u, v |-> v, w |-> w, res |-> r.res]
    /\ pre' = G
    /\ steps' = steps + 1

Init ==
    /\ \E d \in BOOLEAN :
        /\ vertices = new(d).vertices
        /\ edges = new(d).edges
        /\ directed = new(d).directed
    /\ last = [op |-> "new", u |-> 0, v |-> 0, w |-> 0, res |-> "Ok"]
    /\ pre = G
    /\ steps = 0

AddVertex == \E x \in Vertex : Call("add_vertex", x, 0, 0, add_vertex(G, x))

RemoveVertex == \E x \in Vertex : Call("remove_vertex", x, 0, 0, remove_vertex(G, x))

AddEdge == \E u, v \in Vertex : Call("add_edge", u, v, 0, add_edge(G, u, v))

RemoveEdge == \E u, v \in Vertex : Call("remove_edge", u, v, 0, remove_edge(G, u, v))

SetEdgeWeight ==
    \E u, v \in Vertex, w \in Weight :
        Call("set_edge_weight", u, v, w, set_edge_weight(G, u, v, w))

RemoveIsolatedVertices ==
    \E isolated \in Orders(IsolatedOnEntry(G)) :
        Call("remove_isolated_vertices", 0, 0, 0, remove_isolated_vertices(G, isolated))

Next ==
    \/ AddVertex
    \/ RemoveVertex
    \/ AddEdge
    \/ RemoveEdge
    \/ SetEdgeWeight
    \/ RemoveIsolatedVertices

Spec == Init /\ [][Next]_vars

TypeOK ==
    /\ DOMAIN vertices \subseteq Vertex
    /\ \A x \in DOMAIN vertices : vertices[x] \subseteq Vertex
    /\ DOMAIN edges \subseteq Vertex \X Vertex
    /\ \A p \in DOMAIN edges : edges[p] \in Weight
    /\ directed \in BOOLEAN
    /\ steps \in 0..MaxOps

\* ---------------------------------------------------------------- properties
\* The call made last returned Ok.
Returned(op) == last.op = op /\ last.res = "Ok"

\* v is in u's neighbor set.
Adjacent(g, u, v) == u \in DOMAIN g.vertices /\ v \in g.vertices[u]

\* C1: in an undirected graph contains_edge(u,v) equals contains_edge(v,u) for
\* all u and v, in every reachable state.
C1_ContainsEdgeSymmetric ==
    ~directed => \A u, v \in Vertex : contains_edge(G, u, v) = contains_edge(G, v, u)

\* C2: right after add_edge(u,v) returned Ok, contains_edge(u,v) is true, and in
\* an undirected graph contains_edge(v,u) is true as well.  Stated for two
\* different endpoints, the case of Scenario B.
C2_AddEdgeThenContainsEdge ==
    (Returned("add_edge") /\ last.u # last.v) =>
        /\ contains_edge(G, last.u, last.v)
        /\ (~directed => contains_edge(G, last.v, last.u))

\* C3: add_edge(u,v) on a graph in which add_edge(u,v) has just succeeded (so
\* both endpoints are present, the edge exists and nothing was removed since)
\* returns EdgeAlreadyExists.  Stated for two different endpoints.
C3_SecondAddEdgeRejected ==
    (Returned("add_edge") /\ last.u # last.v) =>
        add_edge(G, last.u, last.v).res = "EdgeAlreadyExists"

\* C4: a weight entry for (u,v) implies v is in u's neighbor set, and in an
\* undirected graph also a weight entry for (v,u) with the same weight and u in
\* v's neighbor set.
C4_WeightMapInvariant ==
    \A u, v \in Vertex :
        <<u, v>> \in DOMAIN edges =>
            /\ Adjacent(G, u, v)
            /\ (~directed =>
                    /\ <<v, u>> \in DOMAIN edges
                    /\ edges[<<v, u>>] = edges[<<u, v>>]
                    /\ Adjacent(G, v, u))

\* C5: after remove_vertex(x) returned Ok, x is no vertex, no remaining vertex
\* has x in its neighbor set, and edge_weight(x,y) and edge_weight(y,x) are None
\* for every y.
C5_CascadeIntegrity ==
    Returned("remove_vertex") =>
        /\ ~contains_vertex(G, last.u)
        /\ \A y \in DOMAIN vertices : last.u \notin vertices[y]
        /\ \A y \in Vertex :
            /\ ~edge_weight(G, last.u, y).some
            /\ ~edge_weight(G, y, last.u).some

\* remove_vertex(x) has removed a vertex that another, remaining vertex had as
\* a neighbor with a stored weight, in a directed graph.
C5_Witness ==
    /\ Returned("remove_vertex")
    /\ directed
    /\ \E y \in DOMAIN vertices :
        /\ Adjacent(pre, y, last.u)
        /\ <<y, last.u>> \in DOMAIN pre.edges

\* C6: in an undirected graph every neighbor of a vertex is a vertex that has
\* it as a neighbor in turn: v in u's neighbor set iff u in v's.
C6_AdjacencySymmetric ==
    ~directed =>
        \A u \in DOMAIN vertices : \A v \in vertices[u] : Adjacent(G, v, u)

\* An undirected graph holds an edge between two different vertices that
\* add_edge has just made.
C6_Witness ==
    /\ ~directed
    /\ Returned("add_edge")
    /\ last.u # last.v
    /\ Adjacent(G, last.u, last.v)

\* The unordered pairs {u,v} with an edge: v in u's neighbor set or u in v's.
EdgePairs(g) ==
    {e \in SUBSET Vertex : \E u, v \in Vertex :
        e = {u, v} /\ (Adjacent(g, u, v) \/ Adjacent(g, v, u))}

\* C7: in an undirected graph edge_count() is the number of distinct unordered
\* pairs {u,v} that have an edge.
C7_EdgeCountIsPairCount ==
    ~directed => edge_count(G) = Cardinality(EdgePairs(G))

\* x is the source or the target of an edge.
Incident(g, x) == \E y \in DOMAIN g.vertices : Adjacent(g, x, y) \/ Adjacent(g, y, x)

\* C8: a vertex with no incident edge is in get_isolated_vertices(), and a
\* vertex that is the source or the target of an edge is not.
C8_IsolatedIffNoIncidentEdge ==
    \A x \in DOMAIN vertices : (x \in get_isolated_vertices(G)) <=> ~Incident(G, x)

\* C9: right after remove_isolated_vertices returned Ok the graph has no
\* isolated vertex.
C9_NoIsolatedVertexLeft ==
    Returned("remove_isolated_vertices") =>
        /\ ~has_isolated_vertex(G)
        /\ get_isolated_vertices(G) = {}

\* C10: remove_isolated_vertices returns VertexNotFound exactly when no vertex
\* had an empty neighbor set on entry, and then leaves the graph unchanged;
\* otherwise it returns Ok and the vertex set is the one on entry minus exactly
\* the vertices that had an empty neighbor set on entry.
C10_RemoveIsolatedResult ==
    last.op = "remove_isolated_vertices" =>
        LET empty == {x \in DOMAIN pre.vertices : pre.vertices[x] = {}}
        IN /\ (last.res = "VertexNotFound") <=> (empty = {})
           /\ (last.res = "VertexNotFound") => G = pre
           /\ (last.res # "VertexNotFound") =>
                /\ last.res = "Ok"
                /\ DOMAIN vertices = (DOMAIN pre.vertices) \ empty

\* remove_isolated_vertices has removed two vertices and left others.
C10_Witness ==
    /\ Returned("remove_isolated_vertices")
    /\ Cardinality((DOMAIN pre.vertices) \ DOMAIN vertices) = 2
    /\ DOMAIN vertices # {}

\* C11: remove_edge(u,v) on an edge that does not exist (v is not in u's
\* neighbor set, nor u in v's) returns EdgeNotFound and leaves the vertex set,
\* every neighbor set and the weight map unchanged, also when u or v is no
\* vertex.
C11_RemoveAbsentEdge ==
    (last.op = "remove_edge"
        /\ ~Adjacent(pre, last.u, last.v)
        /\ ~Adjacent(pre, last.v, last.u)) =>
        /\ last.res = "EdgeNotFound"
        /\ vertices = pre.vertices
        /\ edges = pre.edges

\* C12: after set_edge_weight(u,v,w) returned Ok, v is in u's neighbor set and
\* edge_weight(u,v) is Some(w), whatever edge or weight existed before; in an
\* undirected graph u is in v's neighbor set and edge_weight(v,u) is Some(w).
C12_SetEdgeWeightUpsert ==
    Returned("set_edge_weight") =>
        /\ Adjacent(G, last.u, last.v)
        /\ edge_weight(G, last.u, last.v) = [some |-> TRUE, w |-> last.w]
        /\ (~directed =>
                /\ Adjacent(G, last.v, last.u)
                /\ edge_weight(G, last.v, last.u) = [some |-> TRUE, w |-> last.w])

\* set_edge_weight(u,v,w) has succeeded on an undirected graph that held a
\* weight entry for (v,u) and neither a weight entry for (u,v) nor v in u's
\* neighbor set, u and v being different.
C12_Witness ==
    /\ Returned("set_edge_weight")
    /\ ~directed
    /\ last.u # last.v
    /\ contains_edge(pre, last.v, last.u)
    /\ ~contains_edge(pre, last.u, last.v)
    /\ ~Adjacent(pre, last.u, last.v)

\* C13: no call panics: no unwrap() on vertices.get_mut sees None, neither in
\* the call made last nor in any remove_edge, add_edge or set_edge_weight that
\* can be made now; every key of the weight map names two vertices.
C13_NoPanic ==
    /\ last.res # "Panic"
    /\ \A p \in DOMAIN edges : contains_vertex(G, p[1]) /\ contains_vertex(G, p[2])
    /\ \A u, v \in Vertex :
        /\ remove_edge(G, u, v).res # "Panic"
        /\ add_edge(G, u, v).res # "Panic"
        /\ \A w \in Weight : set_edge_weight(G, u, v, w).res # "Panic"

\* remove_vertex has removed a vertex that had weighted edges, and remove_edge
\* can be called on the pairs it was part of.
C13_Witness ==
    /\ Returned("remove_vertex")
    /\ \E y \in DOMAIN vertices :
        /\ contains_edge(pre, last.u, y)
        /\ contains_edge(pre, y, last.u)

\* C14: no vertex is in its own neighbor set and no weight entry exists for a
\* pair (u,u), in every reachable state.
C14_NoSelfLoops ==
    \A u \in Vertex : ~Adjacent(G, u, u) /\ ~contains_edge(G, u, u)

\* C15: add_vertex(v) on a vertex of the graph returns VertexAlreadyExists and
\* leaves the graph unchanged; on an absent vertex it returns Ok and v is a
\* vertex with an empty neighbor set.
C15_AddVertexResult ==
    last.op = "add_vertex" =>
        IF contains_vertex(pre, last.u)
        THEN last.res = "VertexAlreadyExists" /\ G = pre
        ELSE /\ last.res = "Ok"
             /\ contains_vertex(G, last.u)
             /\ vertices[last.u] = {}

\* C16: add_edge(u,v) with u or v no vertex returns VertexNotFound and no
\* other result.
C16_AddEdgeMissingEndpoint ==
    (last.op = "add_edge"
        /\ (~contains_vertex(pre, last.u) \/ ~contains_vertex(pre, last.v))) =>
        last.res = "VertexNotFound"

\* add_edge(u,v) was called with u a vertex and v none.
C16_Witness ==
    /\ last.op = "add_edge"
    /\ contains_vertex(pre, last.u)
    /\ ~contains_vertex(pre, last.v)
    /\ last.res = "VertexNotFound"

\* C17: a call that returns an error leaves the vertex set, every neighbor
\* set, the weight map and the directedness flag as they were; remove_vertex
\* and set_edge_weight return VertexNotFound when a vertex they name is absent.
C17_ErrorAtomicity ==
    /\ last.res # "Ok" => G = pre
    /\ (last.op = "remove_vertex" /\ ~contains_vertex(pre, last.u)) =>
            last.res = "VertexNotFound"
    /\ (last.op = "set_edge_weight"
            /\ (~contains_vertex(pre, last.u) \/ ~contains_vertex(pre, last.v))) =>
            last.res = "VertexNotFound"

\* set_edge_weight(u,v,w) has failed on a graph with weighted edges, u being a
\* vertex and v none.
C17_Witness ==
    /\ last.op = "set_edge_weight"
    /\ last.res = "VertexNotFound"
    /\ contains_vertex(pre, last.u)
    /\ ~contains_vertex(pre, last.v)
    /\ DOMAIN pre.edges # {}

\* C18: after add_edge(u,v) returned Ok, remove_edge(u,v) returns Ok and gives
\* back the vertex set, the neighbor sets and the weight map that add_edge was
\* called on.  Stated for two different endpoints.
C18_AddThenRemoveRoundTrip ==
    (Returned("add_edge") /\ last.u # last.v) =>
        /\ remove_edge(G, last.u, last.v).res = "Ok"
        /\ remove_edge(G, last.u, last.v).g = pre

\* C19: after remove_vertex(x) returned Ok the vertex set is the one before
\* minus x, and for all u, v other than x the membership of v in u's neighbor
\* set and the weight entry of (u,v) are as before; so is the directedness.
C19_RemoveVertexFrame ==
    Returned("remove_vertex") =>
        /\ DOMAIN vertices = (DOMAIN pre.vertices) \ {last.u}
        /\ \A u, v \in Vertex \ {last.u} :
            /\ Adjacent(G, u, v) <=> Adjacent(pre, u, v)
            /\ edge_weight(G, u, v) = edge_weight(pre, u, v)
        /\ directed = pre.directed

\* remove_vertex(x) has succeeded on a graph with a weighted edge between two
\* other vertices.
C19_Witness ==
    /\ Returned("remove_vertex")
    /\ \E u, v \in Vertex \ {last.u} :
        /\ u # v
        /\ Adjacent(pre, u, v)
        /\ contains_edge(pre, u, v)
====
